---- MODULE Spec2Model ----
(***************************************************************************)
(* A model of telegram_user_migrator.py: the single-account executor       *)
(* (TelegramMigrator: add_user, batch_add_users, retry_failed_users,       *)
(* save/load_progress, the signal handler and main's single-account        *)
(* branch), the multi-account scheduler (MultiAccountMigrator) and the     *)
(* account score arithmetic.                                               *)
(***************************************************************************)
EXTENDS Integers, Sequences, FiniteSets, TLC

\* ------------------------------------------------------------------ bounds
\* Largest number of migratable members the source group holds (ids 1..n).
MaxMembers == 2
\* Largest number of enumerated entries that are skipped (bot, deleted, self).
MaxSkipped == 1
\* Largest --batch-size drawn for a run.
MaxBatchSize == 2
\* Longest chain of consecutive runs that find a progress file when they
\* start.
MaxResumes == 1
\* Number of signals (SIGINT, SIGTERM) delivered to one run.
MaxSignals == 1
\* Largest number of configured accounts in multi-account mode.
MaxAccounts == 3
\* Largest number of migratable members in the multi-account run's source.
MaxMultiMembers == 3
\* Longest sequence of outcomes fed to _update_account_performance.
MaxOutcomes == 8
\* direct method calls made on one migrator
MaxCalls == 3
\* accounts configured, and get_best_available_migrator calls made, where
\* the selection alone is run
MaxPickAccounts == 5
MaxPicks == 7

\* ------------------------------------------------------- program constants
INVITE_DELAY == 60
FLOOD_ERROR_DELAY == 3600
\* retry_failed_users(max_retries = 3)
MaxRetries == 3
\* wait_time = 120 * retry_count
RetryWaitUnit == 120
\* await asyncio.sleep(2) after every retried user
RetryPause == 2
\* --batch-delay default
BatchDelay == 30

\* ------------------------------------------------------ platform responses
\* What client.add_chat_members can answer: success, or the exception raised.
\* FloodWait carries e.value; the durations the platform may send are drawn
\* from WaitValues.
WaitValues == {30, 45}

OK == [kind |-> "OK", value |-> 0]
PeerFlood == [kind |-> "PEER_FLOOD", value |-> 0]
FloodWait(d) == [kind |-> "FloodWait", value |-> d]
Raised(k) == [kind |-> k, value |-> 0]
NoResponse == [kind |-> "none", value |-> 0]

\* The exception classes add_user names.
Rejections ==
  { "UserPrivacyRestricted", "UserNotMutualContact", "PeerIdInvalid",
    "ChatAdminRequired", "UserChannelsTooMuch", "InputUserDeactivated",
    "ChannelPrivate" }

\* An exception of a class add_user does not name, whose text holds no
\* "flood".
OtherError == "USER_BANNED_IN_CHANNEL"

\* Every kind of answer add_user tells apart.
AllResponses ==
  { OK, PeerFlood } \cup { Raised(k) : k \in Rejections \cup {OtherError} }
    \cup { FloodWait(d) : d \in WaitValues }

\* The responses the platform is let to give in the explored runs.
Responses ==
  { OK, PeerFlood, Raised("UserPrivacyRestricted") }
    \cup { FloodWait(d) : d \in WaitValues }

\* The label _update_error_stats is called with for each exception.
ErrorLabel(kind) ==
  CASE kind = "UserPrivacyRestricted" -> "Privacy Restricted"
    [] kind = "UserNotMutualContact" -> "Not Mutual Contact"
    [] kind = "PeerIdInvalid" -> "Invalid User"
    [] kind = "ChatAdminRequired" -> "Admin Privileges Required"
    [] kind = "UserChannelsTooMuch" -> "User In Too Many Channels"
    [] kind = "InputUserDeactivated" -> "User Deactivated"
    [] kind = "ChannelPrivate" -> "Channel Private"
    [] kind = "PEER_FLOOD" -> "Peer Flood Error"
    [] OTHER -> kind

\* ------------------------------------------------------------------- stats
\* stats["errors"] is a dict: its keys keep their insertion order.
NoErrors == << >>

\* _update_error_stats starting the dict afresh at every call.
update_error_stats_afresh(errors, t) == << [type |-> t, n |-> 1] >>

ErrorCount(errors, t) ==
  IF \E i \in 1..Len(errors) : errors[i].type = t
  THEN (CHOOSE e \in { errors[i] : i \in 1..Len(errors) } : e.type = t).n
  ELSE 0

update_error_stats(errors, t) ==
  IF \E i \in 1..Len(errors) : errors[i].type = t
  THEN [ i \in 1..Len(errors) |->
           IF errors[i].type = t THEN [type |-> t, n |-> errors[i].n + 1]
           ELSE errors[i] ]
  ELSE Append(errors, [type |-> t, n |-> 1])

NewStats == [total |-> 0, success |-> 0, failed |-> 0, skipped |-> 0,
             errors |-> NoErrors]

\* ---------------------------------------------------------------- add_user
\* Variants of the definitions below with one plausible fault each; the
\* properties at the end of the module are checked to tell them apart.
NeverProcessed(processed, uid) == FALSE

add_user_flood_wait_fixed(processed, st, uid, wait_time) ==
  [processed |-> processed, stats |-> st, ret |-> FALSE, called |-> TRUE,
   saved |-> TRUE, sleep |-> INVITE_DELAY, outcome |-> "RateLimited"]

add_user_flood_wait_unsaved(processed, st, uid, wait_time) ==
  [processed |-> processed, stats |-> st, ret |-> FALSE, called |-> TRUE,
   saved |-> FALSE, sleep |-> wait_time, outcome |-> "RateLimited"]

add_user_added_unsaved(processed, st, uid) ==
  [processed |-> processed \cup {uid}, stats |-> st, ret |-> TRUE,
   called |-> TRUE, saved |-> FALSE, sleep |-> INVITE_DELAY, outcome |-> "Added"]

add_user_rejected_unmarked(processed, st, uid, label) ==
  [processed |-> processed,
   stats |-> [st EXCEPT !.errors = update_error_stats(@, label)],
   ret |-> FALSE, called |-> TRUE, saved |-> FALSE, sleep |-> 0,
   outcome |-> "Rejected"]

add_user_peer_flood_marked(processed, st, uid) ==
  [processed |-> processed \cup {uid},
   stats |-> [st EXCEPT !.errors = update_error_stats(@, "Peer Flood Error")],
   ret |-> FALSE, called |-> TRUE, saved |-> TRUE, sleep |-> FLOOD_ERROR_DELAY,
   outcome |-> "FloodPenalty"]

load_progress_empty(file, st) ==
  IF file.exists
  THEN [ok |-> TRUE, processed_users |-> {}, stats |-> file.stats]
  ELSE [ok |-> FALSE, processed_users |-> {}, stats |-> st]

Uncapped(x) == x
NoCooldown(cooldowns, i, t) == FALSE

\* if user.id in self.processed_users
AlreadyProcessed(processed, uid) == uid \in processed

\* The outcomes of TelegramMigrator.add_user. Each gives the new processed
\* set and stats, the value returned, whether the platform was called,
\* whether save_progress ran (always after the changes and before the sleep),
\* and the sleep that follows.

\* The platform added the user: mark processed, save, wait INVITE_DELAY.
add_user_added(processed, st, uid) ==
  [processed |-> processed \cup {uid}, stats |-> st, ret |-> TRUE,
   called |-> TRUE, saved |-> TRUE, sleep |-> INVITE_DELAY, outcome |-> "Added"]

\* except FloodWait as e: save, sleep e.value, return False.
add_user_flood_wait(processed, st, uid, wait_time) ==
  [processed |-> processed, stats |-> st, ret |-> FALSE, called |-> TRUE,
   saved |-> TRUE, sleep |-> wait_time, outcome |-> "RateLimited"]

\* except Exception with "PEER_FLOOD"/"flood" in its text: count the error,
\* save, sleep FLOOD_ERROR_DELAY, return False.
add_user_peer_flood(processed, st, uid) ==
  [processed |-> processed,
   stats |-> [st EXCEPT !.errors = update_error_stats(@, "Peer Flood Error")],
   ret |-> FALSE, called |-> TRUE, saved |-> TRUE, sleep |-> FLOOD_ERROR_DELAY,
   outcome |-> "FloodPenalty"]

\* The named rejections and any other exception: count the error under its
\* label, mark processed, return False.
add_user_rejected(processed, st, uid, label) ==
  [processed |-> processed \cup {uid},
   stats |-> [st EXCEPT !.errors = update_error_stats(@, label)],
   ret |-> FALSE, called |-> TRUE, saved |-> FALSE, sleep |-> 0,
   outcome |-> "Rejected"]

\* add_user without its check of processed_users.
add_user_unchecked(processed, st, dry, uid, resp) ==
  IF dry
  THEN [processed |-> processed \cup {uid}, stats |-> st, ret |-> TRUE,
        called |-> FALSE, saved |-> FALSE, sleep |-> 0, outcome |-> "Simulated"]
  ELSE IF resp.kind = "FloodWait"
  THEN add_user_flood_wait(processed, st, uid, resp.value)
  ELSE IF resp.kind = "PEER_FLOOD" THEN add_user_peer_flood(processed, st, uid)
  ELSE IF resp.kind \in Rejections
  THEN add_user_rejected(processed, st, uid, ErrorLabel(resp.kind))
  ELSE add_user_added(processed, st, uid)

\* TelegramMigrator.add_user on one platform response.
add_user(processed, st, dry, uid, resp) ==
  IF AlreadyProcessed(processed, uid)
  THEN [processed |-> processed, stats |-> st, ret |-> TRUE, called |-> FALSE,
        saved |-> FALSE, sleep |-> 0, outcome |-> "AlreadyProcessed"]
  ELSE IF dry
  THEN [processed |-> processed \cup {uid}, stats |-> st, ret |-> TRUE,
        called |-> FALSE, saved |-> FALSE, sleep |-> 0, outcome |-> "Simulated"]
  ELSE IF resp.kind = "OK" THEN add_user_added(processed, st, uid)
  ELSE IF resp.kind = "FloodWait"
  THEN add_user_flood_wait(processed, st, uid, resp.value)
  ELSE IF resp.kind = "PEER_FLOOD" THEN add_user_peer_flood(processed, st, uid)
  ELSE add_user_rejected(processed, st, uid, ErrorLabel(resp.kind))

\* ---------------------------------------------------------------- progress
NoFile == [exists |-> FALSE]

save_progress(processed, st) ==
  [exists |-> TRUE, processed_users |-> processed, stats |-> st]

\* load_progress: (whether it loaded, processed_users, stats).
load_progress(file, st) ==
  IF file.exists
  THEN [ok |-> TRUE, processed_users |-> file.processed_users, stats |-> file.stats]
  ELSE [ok |-> FALSE, processed_users |-> {}, stats |-> st]

\* What a write of the progress file can come to: written, open() failed
\* (the file is as it was), or pickle.dump failed after open(..., 'wb') had
\* truncated the file.
WriteOutcomes == {"written", "open_failed", "dump_failed"}
TruncatedFile == [exists |-> TRUE, truncated |-> TRUE]

\* save_progress letting the failure of its write reach its caller.
save_progress_unguarded(file, processed, st, outcome) ==
  [file |-> IF outcome = "written" THEN save_progress(processed, st)
            ELSE IF outcome = "open_failed" THEN file ELSE TruncatedFile,
   raised |-> outcome # "written"]

\* save_progress with its try/except: the file it leaves and whether an
\* exception leaves it. `except Exception` logs every failure of the write.
save_progress_guarded(file, processed, st, outcome) ==
  [file |-> IF outcome = "written" THEN save_progress(processed, st)
            ELSE IF outcome = "open_failed" THEN file ELSE TruncatedFile,
   raised |-> FALSE]

\* self.client.add_chat_members: with client None (start never ran) the
\* attribute lookup raises AttributeError, whose text is NoClient.
NoClient == "'NoneType' object has no attribute 'add_chat_members'"
client_add_chat_members(connected, resp) ==
  IF connected THEN resp ELSE Raised(NoClient)


\* ------------------------------------------------------------------ scores
\* A score is a decimal numeral << d0, d1, ..., dk >> standing for
\* d0.d1...dk, without trailing zeros: the arithmetic of
\* _update_account_performance is carried out exactly (the floats of the
\* source round it in the 16th digit).
ScoreOne == << 1 >>
ScoreZero == << 0 >>
ScoreFloor == << 0, 1 >>

RECURSIVE Normalize(_)
Normalize(d) ==
  IF Len(d) > 1 /\ d[Len(d)] = 0 THEN Normalize(SubSeq(d, 1, Len(d) - 1))
  ELSE d

Digit(d, i) == IF i <= Len(d) THEN d[i] ELSE 0

\* a < b
RECURSIVE LessFrom(_, _, _)
LessFrom(a, b, i) ==
  IF i > Len(a) /\ i > Len(b) THEN FALSE
  ELSE IF Digit(a, i) # Digit(b, i) THEN Digit(a, i) < Digit(b, i)
  ELSE LessFrom(a, b, i + 1)

ScoreLess(a, b) == LessFrom(a, b, 1)

\* The digits of d * c from position i leftwards, given the carry into i.
RECURSIVE MulFrom(_, _, _, _)
MulFrom(d, c, i, carry) ==
  IF i = 0 THEN << carry >>
  ELSE LET p == d[i] * c + carry
       IN Append(MulFrom(d, c, i - 1, p \div 10), p % 10)

\* d * (c / 10), for a digit c and d < 10 / c.
TimesTenths(d, c) == Normalize(MulFrom(d, c, Len(d), 0))

\* d + 0.3, for d < 9.7
PlusThreeTenths(d) ==
  LET e == IF Len(d) = 1 THEN << d[1], 0 >> ELSE d
      f == e[2] + 3
  IN Normalize([e EXCEPT ![1] = @ + (f \div 10), ![2] = f % 10])

ScoreMax(a, b) == IF ScoreLess(a, b) THEN b ELSE a
ScoreMin(a, b) == IF ScoreLess(b, a) THEN b ELSE a

\* max(0.1, min(1.0, new_score))
ClampScore(x) == ScoreMax(ScoreFloor, ScoreMin(ScoreOne, x))

\* new_score of _update_account_performance before the cap.
BlendScore(score, success) ==
  IF success THEN PlusThreeTenths(TimesTenths(score, 7))
  ELSE TimesTenths(score, 7)

\* _update_account_performance on one account's record.
update_account_performance(perf, success) ==
  [attempts |-> perf.attempts + 1,
   successes |-> IF success THEN perf.successes + 1 ELSE perf.successes,
   score |-> ClampScore(BlendScore(perf.score, success))]

\* account_performance[account_idx]["score"] *= 0.5
HalveScore(score) == TimesTenths(score, 5)

NewPerformance == [attempts |-> 0, successes |-> 0, score |-> ScoreOne]

\* ------------------------------------------------------------------- state
VARIABLES
  source,           \* the source group: [members, skipped] counts enumerated
  progress_file,    \* <session>_progress.pkl: NoFile or the pickled record
  runs,             \* consecutive runs that found a progress file at start
  pc,               \* where the run's control is
  args,             \* the run's flags: [dry_run, batch_size, invite_link]
  signals,          \* signals delivered to this run
  resuming,         \* main's resuming
  processed_users,  \* TelegramMigrator.processed_users
  stats,            \* TelegramMigrator.stats
  should_exit,      \* TelegramMigrator.should_exit
  members,          \* main's members (the enumerated list, ids in order)
  users,            \* the list batch_add_users / retry_failed_users walks
  idx,              \* position in users of the user being added
  caller,           \* who called add_user: "batch" or "retry"
  retry_count,      \* retry_failed_users' retry_count
  newly_failed,     \* retry_failed_users' newly_failed
  sleeping,         \* duration of the asyncio.sleep in progress (0: none)
  pending,          \* value add_user returns once its sleep ends
  calls,            \* ids passed to client.add_chat_members in this run
  loaded,           \* processed set found in the progress file at start
  last,             \* the latest add_user call: number, user, response, result
  hist              \* the run so far: start and validation results, the
                    \* platform calls other than add_chat_members, and
                    \* whether the signal came in batch_add_users with
                    \* members left, the sleep a cancellation came in, and
                    \* batch_add_users' end-of-chunk saves and inter-batch
                    \* sleeps

svars == << source, progress_file, runs, pc, args, signals, resuming, processed_users,
            stats, should_exit, members, users, idx, caller, retry_count,
            newly_failed, sleeping, pending, calls, loaded, last, hist >>

\* The multi-account scheduler's state.
VARIABLES
  accounts,               \* number of configured accounts (ids 0..n-1)
  msource,                \* the source group of the multi-account run
  mdry_run,               \* MultiAccountMigrator.dry_run
  active_migrators,       \* the ids of the migrators that started, in order
  account_cooldowns,      \* index -> cooldown_until
  account_performance,    \* index -> [attempts, successes, score]
  current_migrator_index,
  migrators,              \* id -> [processed_users, stats, file] of that
                          \* migrator; file is its <session>_progress.pkl
  mstats,                 \* MultiAccountMigrator.stats
  now,                    \* time.time()
  mpc,                    \* where main's multi-account branch is
  mmembers,               \* main's members
  mi,                     \* position in mmembers of the member being added
  fallback,               \* add_user_with_fallback: [exclude_idx, attempts]
  mcalls,                 \* client.add_chat_members calls: [account, uid, kind]
  sched,                  \* the scheduler add_user call in progress or last ended
  picked,                 \* the latest get_best_available_migrator call
  mhist                   \* the results of the two validate_group calls

mvars == << accounts, msource, mdry_run, active_migrators, account_cooldowns,
            account_performance, current_migrator_index, migrators, mstats,
            now, mpc, mmembers, mi, fallback, mcalls, sched, picked, mhist >>

vars == << svars, mvars >>

NoCall == [n |-> 0, uid |-> 0, resp |-> NoResponse, ret |-> TRUE,
           called |-> FALSE, saved |-> FALSE, sleep |-> 0, outcome |-> "none",
           was_processed |-> FALSE]

NoHist == [started |-> FALSE, source_valid |-> FALSE, target_valid |-> FALSE,
           others |-> << >>, interrupted |-> FALSE,
           cancelled_at |-> "none", chunk_saves |-> 0, delays |-> 0]

\* [1, ..., n]
Ids(n) == [ i \in 1..n |-> i ]

\* [u for u in seq if u not in processed]
RECURSIVE NotProcessed(_, _)
NotProcessed(seq, processed) ==
  IF seq = << >> THEN << >>
  ELSE IF Head(seq) \in processed THEN NotProcessed(Tail(seq), processed)
  ELSE << Head(seq) >> \o NotProcessed(Tail(seq), processed)

\* get_chat_members: every skipped entry increments stats["skipped"].
get_chat_members(st, src) ==
  [members |-> Ids(src.members),
   stats |-> [st EXCEPT !.skipped = @ + src.skipped]]

SInit ==
  /\ source \in [members : 1..MaxMembers, skipped : 0..MaxSkipped]
  /\ progress_file = NoFile
  /\ runs = 0
  /\ pc = "idle"
  /\ args = [dry_run |-> FALSE, batch_size |-> 1, invite_link |-> FALSE]
  /\ signals = 0
  /\ resuming = FALSE
  /\ processed_users = {}
  /\ stats = NewStats
  /\ should_exit = FALSE
  /\ members = << >>
  /\ users = << >>
  /\ idx = 0
  /\ caller = "batch"
  /\ retry_count = 0
  /\ newly_failed = << >>
  /\ sleeping = 0
  /\ pending = FALSE
  /\ calls = << >>
  /\ loaded = {}
  /\ last = NoCall
  /\ hist = NoHist

\* main going on to the member work once the account has started, whatever
\* validate_group returned.
ProceedsUnvalidated(started, source_valid, target_valid) == started

\* main goes on to the members only when the client started and both groups
\* validated: start raises MigrationError, an invalid group returns.
Proceeds(started, source_valid, target_valid) ==
  started /\ source_valid /\ target_valid

\* main, single-account branch, from the construction of the migrator to the
\* call of batch_add_users: --force-clear, load_progress, start,
\* validate_group twice, get_chat_members, stats["total"].
Main_Start ==
  /\ pc = "idle"
  /\ \E dry \in BOOLEAN, bs \in 1..MaxBatchSize, invite \in BOOLEAN,
        no_resume \in BOOLEAN, force_clear \in BOOLEAN,
        started \in BOOLEAN, source_valid \in BOOLEAN, target_valid \in BOOLEAN :
       LET file == IF force_clear THEN NoFile ELSE progress_file
           ld == IF no_resume THEN [ok |-> FALSE, processed_users |-> {},
                                    stats |-> NewStats]
                 ELSE load_progress(file, NewStats)
           got == get_chat_members(ld.stats, source)
           fresh == ~ld.ok \/ ld.processed_users = {}
           go == Proceeds(started, source_valid, target_valid)
       IN /\ progress_file.exists => runs < MaxResumes
          /\ ~started => ~source_valid /\ ~target_valid
          /\ ~source_valid => ~target_valid
          /\ runs' = IF progress_file.exists THEN runs + 1 ELSE 0
          /\ args' = [dry_run |-> dry, batch_size |-> bs, invite_link |-> invite]
          /\ hist' = [NoHist EXCEPT !.started = started,
                                    !.source_valid = source_valid,
                                    !.target_valid = target_valid]
          /\ resuming' = ld.ok
          /\ loaded' = IF ld.ok /\ file.exists THEN file.processed_users ELSE {}
          /\ processed_users' = ld.processed_users
          /\ progress_file' = IF started THEN file
                              ELSE save_progress(ld.processed_users, ld.stats)
          /\ members' = IF go THEN got.members ELSE << >>
          /\ stats' = IF ~go THEN ld.stats
                      ELSE IF fresh
                      THEN [got.stats EXCEPT !.total = Len(got.members)]
                      ELSE got.stats
          /\ pc' = IF ~go THEN "aborted"
                   ELSE IF invite THEN "invite" ELSE "batch_begin"
  /\ should_exit' = FALSE
  /\ signals' = 0
  /\ users' = << >>
  /\ idx' = 0
  /\ caller' = "batch"
  /\ retry_count' = 0
  /\ newly_failed' = << >>
  /\ sleeping' = 0
  /\ pending' = FALSE
  /\ calls' = << >>
  /\ last' = NoCall
  /\ UNCHANGED source
  /\ UNCHANGED mvars

\* generate_invite_link and migrate_by_invite_link: the link is created when
\* the permissions cached under the target's key show an admin who can invite
\* users, and otherwise read from the chat; with a link and outside dry-run
\* every member is sent one message (the sleeps between messages are left
\* out).
RECURSIVE Repeat(_, _)
Repeat(x, n) == IF n = 0 THEN << >> ELSE << x >> \o Repeat(x, n - 1)

migrate_by_invite_link(dry, can_create, link, n) ==
  (IF can_create THEN << "create_chat_invite_link" >> ELSE << >>)
    \o (IF link /\ ~dry THEN Repeat("send_message", n) ELSE << >>)

MigrateByInviteLink ==
  /\ pc = "invite"
  /\ \E can_create \in BOOLEAN, link \in BOOLEAN :
       hist' = [hist EXCEPT !.others =
                  migrate_by_invite_link(args.dry_run, can_create, link, Len(members))]
  /\ pc' = "after_invite"
  /\ UNCHANGED << source, progress_file, runs, args, signals, resuming,
                  processed_users, stats, should_exit, members, users, idx,
                  caller, retry_count, newly_failed, sleeping, pending, calls,
                  loaded, last >>
  /\ UNCHANGED mvars

\* batch_add_users up to the first add_user call: the filter of processed
\* users, the chunking and the first chunk's should_exit check.
BatchAddUsers_Begin ==
  /\ pc = "batch_begin"
  /\ LET us == IF processed_users # {} THEN NotProcessed(members, processed_users)
               ELSE members
     IN /\ users' = us
        /\ idx' = 1
        /\ pc' = IF us = << >> \/ should_exit THEN "after_batch" ELSE "add"
  /\ caller' = "batch"
  /\ UNCHANGED << source, progress_file, runs, args, signals, resuming, processed_users,
                  stats, should_exit, members, retry_count, newly_failed,
                  sleeping, pending, calls, loaded, last, hist >>
  /\ UNCHANGED mvars

\* A variant of batch_after_add without the save at the end of a chunk.
batch_after_add_unsaved(st, processed, ret) ==
  LET st1 == IF ret THEN [st EXCEPT !.success = @ + 1]
             ELSE [st EXCEPT !.failed = @ + 1]
      chunk_end == idx % args.batch_size = 0 \/ idx = Len(users)
  IN IF should_exit
     THEN [stats |-> st1, pc |-> "after_batch", idx |-> idx, saved |-> FALSE,
           sleep |-> 0]
     ELSE IF ~chunk_end
     THEN [stats |-> st1, pc |-> "add", idx |-> idx + 1, saved |-> FALSE,
           sleep |-> 0]
     ELSE IF idx < Len(users)
     THEN [stats |-> st1, pc |-> "batch_delay", idx |-> idx, saved |-> FALSE,
           sleep |-> BatchDelay]
     ELSE [stats |-> st1, pc |-> "after_batch", idx |-> idx, saved |-> FALSE,
           sleep |-> 0]

\* batch_add_users after add_user returned ret: the caller's counters, the
\* exit check, and at the end of a chunk the save and the inter-batch delay.
batch_after_add(st, processed, ret) ==
  LET st1 == IF ret THEN [st EXCEPT !.success = @ + 1]
             ELSE [st EXCEPT !.failed = @ + 1]
      chunk_end == idx % args.batch_size = 0 \/ idx = Len(users)
  IN IF should_exit
     THEN [stats |-> st1, pc |-> "after_batch", idx |-> idx, saved |-> FALSE,
           sleep |-> 0]
     ELSE IF ~chunk_end
     THEN [stats |-> st1, pc |-> "add", idx |-> idx + 1, saved |-> FALSE,
           sleep |-> 0]
     ELSE IF idx < Len(users)
     THEN [stats |-> st1, pc |-> "batch_delay", idx |-> idx, saved |-> TRUE,
           sleep |-> BatchDelay]
     ELSE [stats |-> st1, pc |-> "after_batch", idx |-> idx, saved |-> TRUE,
           sleep |-> 0]

\* A variant of retry_after_add that keeps every user for the next pass.
retry_after_add_keeping(st, ret) ==
  IF ret THEN [stats |-> [st EXCEPT !.success = @ + 1, !.failed = @ - 1],
               newly_failed |-> Append(newly_failed, users[idx])]
  ELSE [stats |-> st, newly_failed |-> Append(newly_failed, users[idx])]

\* retry_failed_users after add_user returned ret, up to the 2-second sleep.
retry_after_add(st, ret) ==
  IF ret THEN [stats |-> [st EXCEPT !.success = @ + 1, !.failed = @ - 1],
               newly_failed |-> newly_failed]
  ELSE [stats |-> st, newly_failed |-> Append(newly_failed, users[idx])]

\* The caller's continuation once add_user has returned ret with the
\* migrator's state (processed, st).
Returned(processed, st, file, ret) ==
  IF caller = "batch"
  THEN LET b == batch_after_add(st, processed, ret)
       IN /\ stats' = b.stats
          /\ pc' = b.pc
          /\ idx' = b.idx
          /\ sleeping' = b.sleep
          /\ progress_file' = IF b.saved THEN save_progress(processed, b.stats)
                              ELSE file
          /\ hist' = [hist EXCEPT
                        !.chunk_saves = IF b.saved THEN @ + 1 ELSE @,
                        !.delays = IF b.sleep > 0 THEN @ + 1 ELSE @]
          /\ UNCHANGED newly_failed
  ELSE LET r == retry_after_add(st, ret)
       IN /\ stats' = r.stats
          /\ newly_failed' = r.newly_failed
          /\ pc' = "retry_pause"
          /\ sleeping' = RetryPause
          /\ progress_file' = file
          /\ UNCHANGED << idx, hist >>

\* One add_user call, up to its sleep; when it does not sleep, up to the
\* caller's next await.
AddUserAnswered(answers) ==
  /\ pc = "add"
  /\ LET uid == users[idx]
         need == ~AlreadyProcessed(processed_users, uid) /\ ~args.dry_run
     IN \E resp \in (IF need THEN answers ELSE {NoResponse}) :
        \E r \in { add_user(processed_users, stats, args.dry_run, uid, resp) } :
          LET file == IF r.saved THEN save_progress(r.processed, r.stats)
                      ELSE progress_file
          IN /\ processed_users' = r.processed
             /\ calls' = IF r.called THEN Append(calls, uid) ELSE calls
             /\ last' = [n |-> last.n + 1, uid |-> uid, resp |-> resp,
                         ret |-> r.ret, called |-> r.called, saved |-> r.saved,
                         sleep |-> r.sleep, outcome |-> r.outcome,
                         was_processed |-> uid \in processed_users]
             /\ IF r.sleep > 0
                THEN /\ pc' = "add_sleep"
                     /\ sleeping' = r.sleep
                     /\ pending' = r.ret
                     /\ stats' = r.stats
                     /\ progress_file' = file
                     /\ UNCHANGED << idx, newly_failed, hist >>
                ELSE /\ pending' = r.ret
                     /\ Returned(r.processed, r.stats, file, r.ret)
  /\ UNCHANGED << source, runs, args, signals, resuming, should_exit, members, users,
                  caller, retry_count, loaded >>
  /\ UNCHANGED mvars

AddUser == AddUserAnswered(Responses)

\* add_user's sleep ends: it returns the pending value to its caller.
AddUser_Wake ==
  /\ pc = "add_sleep"
  /\ Returned(processed_users, stats, progress_file, pending)
  /\ UNCHANGED << source, runs, args, signals, resuming, processed_users, should_exit,
                  members, users, caller, retry_count, pending, calls, loaded,
                  last >>
  /\ UNCHANGED mvars

\* The inter-batch delay ends: the next chunk's should_exit check.
Batch_DelayDone ==
  /\ pc = "batch_delay"
  /\ sleeping' = 0
  /\ idx' = idx + 1
  /\ pc' = IF should_exit THEN "after_batch" ELSE "add"
  /\ UNCHANGED << source, progress_file, runs, args, signals, resuming, processed_users,
                  stats, should_exit, members, users, caller, retry_count,
                  newly_failed, pending, calls, loaded, last, hist >>
  /\ UNCHANGED mvars

\* main after batch_add_users returned: the retry of the members not yet
\* processed, when --no-retry is off and stats["failed"] > 0. --no-retry is
\* read here and nowhere else, so it is drawn here.
FailedMembers == NotProcessed(members, processed_users)

WillRetry(no_retry) ==
  ~no_retry /\ stats.failed > 0 /\ FailedMembers # << >>

Main_Retry ==
  /\ pc = "after_batch"
  /\ WillRetry(FALSE)
  /\ users' = FailedMembers
  /\ idx' = 1
  /\ caller' = "retry"
  /\ retry_count' = 1
  /\ newly_failed' = << >>
  /\ sleeping' = 0
  /\ pc' = "add"
  /\ UNCHANGED << source, progress_file, runs, args, signals, resuming, processed_users,
                  stats, should_exit, members, pending, calls, loaded, last, hist >>
  /\ UNCHANGED mvars

\* The 2-second sleep after a retried user ends: the next user of the pass,
\* or the end of the pass (users = newly_failed, retry_count += 1) and the
\* loop condition.
Retry_PauseDone ==
  /\ pc = "retry_pause"
  /\ IF idx < Len(users)
     THEN /\ idx' = idx + 1
          /\ pc' = "add"
          /\ sleeping' = 0
          /\ UNCHANGED << users, retry_count, newly_failed >>
     ELSE /\ users' = newly_failed
          /\ retry_count' = retry_count + 1
          /\ UNCHANGED newly_failed
          /\ idx' = 0
          /\ IF newly_failed # << >> /\ retry_count + 1 <= MaxRetries
             THEN /\ pc' = "retry_wait"
                  /\ sleeping' = RetryWaitUnit * (retry_count + 1)
             ELSE /\ pc' = "after_retry"
                  /\ sleeping' = 0
  /\ UNCHANGED << source, progress_file, runs, args, signals, resuming, processed_users,
                  stats, should_exit, members, caller, pending, calls, loaded,
                  last, hist >>
  /\ UNCHANGED mvars

\* The wait before a retry pass ends: the pass starts.
Retry_WaitDone ==
  /\ pc = "retry_wait"
  /\ sleeping' = 0
  /\ newly_failed' = << >>
  /\ idx' = 1
  /\ pc' = "add"
  /\ UNCHANGED << source, progress_file, runs, args, signals, resuming, processed_users,
                  stats, should_exit, members, users, caller, retry_count,
                  pending, calls, loaded, last, hist >>
  /\ UNCHANGED mvars

\* main's end: the report, the summary and the removal of the progress file.
Main_Finish ==
  /\ \/ pc = "after_retry"
     \/ pc = "after_invite"
     \/ /\ pc = "after_batch"
        /\ \E no_retry \in BOOLEAN : ~WillRetry(no_retry)
  /\ progress_file' = NoFile
  /\ pc' = "done"
  /\ UNCHANGED << source, runs, args, signals, resuming, processed_users, stats,
                  should_exit, members, users, idx, caller, retry_count,
                  newly_failed, sleeping, pending, calls, loaded, last, hist >>
  /\ UNCHANGED mvars

\* asyncio.CancelledError raised in the sleep in progress. batch_add_users
\* saves progress and re-raises (around add_user and around the inter-batch
\* delay); retry_failed_users does not catch it; main's handlers catch
\* KeyboardInterrupt and Exception, which CancelledError is neither.
Cancelled ==
  /\ pc \in {"add_sleep", "batch_delay", "retry_pause", "retry_wait"}
  /\ progress_file' = IF caller = "batch"
                      THEN save_progress(processed_users, stats)
                      ELSE progress_file
  /\ pc' = "cancelled"
  /\ sleeping' = 0
  /\ hist' = [hist EXCEPT !.cancelled_at = pc]
  /\ UNCHANGED << source, runs, args, signals, resuming, processed_users, stats,
                  should_exit, members, users, idx, caller, retry_count,
                  newly_failed, pending, calls, loaded, last >>
  /\ UNCHANGED mvars

\* asyncio.run(main()) returns or raises: the process ends and only the
\* progress file outlives it. The next run starts from a new migrator.
Main_Exit ==
  /\ pc \in {"done", "cancelled", "aborted"}
  /\ pc' = "idle"
  /\ runs' = IF progress_file.exists THEN runs ELSE 0
  /\ args' = [dry_run |-> FALSE, batch_size |-> 1, invite_link |-> FALSE]
  /\ signals' = 0
  /\ resuming' = FALSE
  /\ processed_users' = {}
  /\ stats' = NewStats
  /\ should_exit' = FALSE
  /\ members' = << >>
  /\ users' = << >>
  /\ idx' = 0
  /\ caller' = "batch"
  /\ retry_count' = 0
  /\ newly_failed' = << >>
  /\ sleeping' = 0
  /\ pending' = FALSE
  /\ calls' = << >>
  /\ loaded' = {}
  /\ last' = NoCall
  /\ hist' = NoHist
  /\ UNCHANGED << source, progress_file >>
  /\ UNCHANGED mvars

\* batch_add_users is running and some enumerated member is not processed.
InBatchWithMembersLeft ==
  /\ caller = "batch"
  /\ pc \in {"batch_begin", "add", "add_sleep", "batch_delay"}
  /\ \E k \in 1..Len(members) : members[k] \notin processed_users

\* _signal_handler (SIGINT, SIGTERM): raises the flag and saves progress.
SignalHandler ==
  /\ pc \notin {"idle", "done", "cancelled", "aborted"}
  /\ signals < MaxSignals
  /\ signals' = signals + 1
  /\ should_exit' = TRUE
  /\ progress_file' = save_progress(processed_users, stats)
  /\ hist' = [hist EXCEPT !.interrupted = InBatchWithMembersLeft]
  /\ UNCHANGED << source, runs, pc, args, resuming, processed_users, stats,
                  members, users, idx, caller, retry_count, newly_failed,
                  sleeping, pending, calls, loaded, last >>
  /\ UNCHANGED mvars

SNext ==
  \/ Main_Start
  \/ MigrateByInviteLink
  \/ BatchAddUsers_Begin
  \/ AddUser
  \/ AddUser_Wake
  \/ Batch_DelayDone
  \/ Main_Retry
  \/ Retry_PauseDone
  \/ Retry_WaitDone
  \/ Main_Finish
  \/ Cancelled
  \/ SignalHandler
  \/ Main_Exit



\* ------------------------------------------------- multi-account scheduler
\* await asyncio.sleep(60) when every account is in cooldown
SCHEDULER_WAIT == 60

\* What the platform is let to answer in the scheduler's runs.
MResponses ==
  { OK, PeerFlood, Raised("UserPrivacyRestricted"), Raised("ChatAdminRequired") }
    \cup { FloodWait(d) : d \in WaitValues }


Indexes(n) == 0..(n - 1)

NoSched == [n |-> 0, uid |-> 0, waited |-> FALSE, primary |-> -1,
            outcome |-> "none", last_error |-> "none", cooled_at |-> -1,
            others_free |-> FALSE, tried |-> << >>, result |-> FALSE,
            ended |-> TRUE, resp |-> "none", perf_before |-> NewPerformance,
            perf_after |-> NewPerformance, cooldown_before |-> 0,
            cooldown_after |-> 0]

NoPick == [n |-> 0, found |-> FALSE, idx |-> -1, at |-> 0, cooled |-> {},
           outranked |-> FALSE, k |-> 0, rank |-> 0, pool |-> 0]

NoMHist == [source_valid |-> FALSE, target_valid |-> FALSE]

\* TelegramMigrator.__init__, with no progress file written yet.
NewMigrator == [processed_users |-> {}, stats |-> NewStats, file |-> NoFile]

\* MultiAccountMigrator.__init__
MInit ==
  /\ accounts \in 1..MaxAccounts
  /\ msource \in [members : 1..MaxMultiMembers, skipped : 0..MaxSkipped]
  /\ mdry_run = FALSE
  /\ active_migrators = << >>
  /\ account_cooldowns = [i \in Indexes(accounts) |-> 0]
  /\ account_performance = [i \in Indexes(accounts) |-> NewPerformance]
  /\ current_migrator_index = 0
  /\ migrators = [i \in Indexes(accounts) |-> NewMigrator]
  /\ mstats = NewStats
  /\ now = 0
  /\ mpc = "idle"
  /\ mmembers = << >>
  /\ mi = 0
  /\ fallback = [exclude_idx |-> -1, attempts |-> 0]
  /\ mcalls = << >>
  /\ sched = NoSched
  /\ picked = NoPick
  /\ mhist = NoMHist

\* The ids of `started` in increasing order: the order start_all appends in.
RECURSIVE InOrder(_, _, _)
InOrder(started, i, n) ==
  IF i >= n THEN << >>
  ELSE IF i \in started THEN << i >> \o InOrder(started, i + 1, n)
  ELSE InOrder(started, i + 1, n)

\* start_all's scores: 1.0 for a migrator that started, 0 for one that failed.
start_all_performance(perf, started) ==
  [i \in DOMAIN perf |->
     [perf[i] EXCEPT !.score = IF i \in started THEN ScoreOne ELSE ScoreZero]]

\* main, multi-account branch, up to the member loop: start_all,
\* validate_group twice, get_chat_members (by the first active migrator),
\* stats["total"]. With no account started start_all raises MigrationError,
\* which main logs; with a group that does not validate main returns. Either
\* way the run ends.
MStart ==
  /\ mpc = "idle"
  /\ \E started \in SUBSET Indexes(accounts), dry \in BOOLEAN,
        source_valid \in BOOLEAN, target_valid \in BOOLEAN :
       LET active == InOrder(started, 0, accounts)
       IN /\ active = << >> => ~source_valid
          /\ ~source_valid => ~target_valid
          /\ mdry_run' = dry
          /\ active_migrators' = active
          /\ account_performance' = start_all_performance(account_performance, started)
          /\ mhist' = [source_valid |-> source_valid, target_valid |-> target_valid]
          /\ IF active = << >>
             THEN /\ mpc' = "failed"
                  /\ UNCHANGED << migrators, mstats, mmembers, mi >>
             ELSE IF ~Proceeds(TRUE, source_valid, target_valid)
             THEN /\ mpc' = "invalid"
                  /\ UNCHANGED << migrators, mstats, mmembers, mi >>
             ELSE LET first == active[1]
                      got == get_chat_members(migrators[first].stats, msource)
                  IN /\ migrators' = [migrators EXCEPT ![first].stats = got.stats]
                     /\ mstats' = [mstats EXCEPT !.skipped = got.stats.skipped,
                                                 !.total = Len(got.members)]
                     /\ mmembers' = got.members
                     /\ mi' = 1
                     /\ mpc' = "loop"
  /\ UNCHANGED << accounts, msource, account_cooldowns, current_migrator_index,
                  now, fallback, mcalls, sched, picked >>
  /\ UNCHANGED svars

InCooldown(cooldowns, i, t) == t < cooldowns[i]

\* available_migrators.sort(key = score, reverse = True): a stable sort, so
\* equal scores keep their index order.
SortsBefore(perf, i, j) ==
  \/ ScoreLess(perf[j].score, perf[i].score)
  \/ perf[i].score = perf[j].score /\ i < j

SortedByScore(avail, perf) ==
  [k \in 1..Cardinality(avail) |->
     CHOOSE i \in avail :
       Cardinality({ j \in avail : SortsBefore(perf, j, i) }) = k - 1]

\* top_half = max(1, len(available_migrators) // 2)
TopHalf(n) == IF n \div 2 < 1 THEN 1 ELSE n \div 2

\* get_best_available_migrator at time t: whether an account was returned,
\* its index in active_migrators, and the new current_migrator_index.
get_best_available_migrator(active, cooldowns, perf, cmi, t) ==
  LET avail == { i \in Indexes(Len(active)) : ~InCooldown(cooldowns, i, t) }
      sorted == SortedByScore(avail, perf)
      position == IF Len(sorted) > 1 THEN cmi % TopHalf(Len(sorted)) ELSE 0
  IN IF avail = {} THEN [found |-> FALSE, idx |-> -1, cmi |-> cmi]
     ELSE [found |-> TRUE, idx |-> sorted[position + 1],
           cmi |-> (cmi + 1) % Len(active)]

\* _set_account_cooldown(account_idx, duration) at time t
set_account_cooldown(cooldowns, i, duration, t) ==
  [cooldowns EXCEPT ![i] = t + duration]

\* error_types[-1] if error_types else "Unknown"
last_error_of(errors) ==
  IF errors = << >> THEN "Unknown" ELSE errors[Len(errors)].type

\* The scheduler's update of its combined error counts from one migrator's.
RECURSIVE combine_errors(_, _)
combine_errors(combined, errors) ==
  IF errors = << >> THEN combined
  ELSE LET e == Head(errors)
           c0 == IF \E k \in 1..Len(combined) : combined[k].type = e.type
                 THEN combined
                 ELSE Append(combined, [type |-> e.type, n |-> 0])
           new_errors == e.n - ErrorCount(c0, e.type)
           c1 == IF new_errors > 0
                 THEN [k \in 1..Len(c0) |->
                         IF c0[k].type = e.type
                         THEN [type |-> e.type, n |-> c0[k].n + new_errors]
                         ELSE c0[k]]
                 ELSE c0
       IN combine_errors(c1, Tail(errors))

\* main's loop body after the scheduler's add_user returned success.
MReturned(st, success) ==
  /\ mstats' = IF success THEN [st EXCEPT !.success = @ + 1]
               ELSE [st EXCEPT !.failed = @ + 1]
  /\ mi' = mi + 1
  /\ mpc' = IF mi = Len(mmembers) THEN "done" ELSE "loop"

\* Some account other than i is out of cooldown at time t.
OthersFree(cooldowns, i, t) ==
  \E j \in Indexes(Len(active_migrators)) : j # i /\ cooldowns[j] <= t

\* What a get_best_available_migrator call at time t was given and returned:
\* the accounts whose cooldown_until lay after t, whether one of them had a
\* higher score than every account out of cooldown, the number k of accounts
\* out of cooldown, the place of the returned account in their sorted list,
\* and the number of places the call rotates among.
PickRecord(res, t) ==
  LET all == Indexes(Len(active_migrators))
      cooled == { i \in all : account_cooldowns[i] > t }
      free == all \ cooled
  IN [n |-> 1, found |-> res.found, idx |-> res.idx, at |-> t,
      cooled |-> cooled,
      outranked |-> \E c \in cooled : \A a \in all \ cooled :
                      ScoreLess(account_performance[a].score,
                                account_performance[c].score),
      k |-> Cardinality(free),
      rank |-> IF res.found
               THEN 1 + Cardinality({ j \in free :
                          SortsBefore(account_performance, j, res.idx) })
               ELSE 0,
      pool |-> TopHalf(Cardinality(free))]

\* MultiAccountMigrator.add_user for the next member, up to its return or to
\* its call of add_user_with_fallback.
MAddUser ==
  /\ mpc = "loop"
  /\ \E first \in { get_best_available_migrator(active_migrators,
                      account_cooldowns, account_performance,
                      current_migrator_index, now) } :
     \E pick \in { IF first.found THEN first
                   ELSE get_best_available_migrator(active_migrators,
                          account_cooldowns, account_performance,
                          current_migrator_index, now + SCHEDULER_WAIT) } :
       LET uid == mmembers[mi]
           t1 == IF first.found THEN now ELSE now + SCHEDULER_WAIT
           call == [n |-> sched.n + 1, uid |-> uid, waited |-> ~first.found,
                    primary |-> pick.idx, outcome |-> "none",
                    last_error |-> "none", cooled_at |-> -1,
                    others_free |-> FALSE, tried |-> << >>, result |-> FALSE,
                    ended |-> TRUE, resp |-> "none",
                    perf_before |-> NewPerformance,
                    perf_after |-> NewPerformance, cooldown_before |-> 0,
                    cooldown_after |-> 0]
       IN IF ~pick.found
          THEN /\ now' = t1
               /\ sched' = call
               /\ picked' = PickRecord(pick, t1)
               /\ MReturned(mstats, FALSE)
               /\ UNCHANGED << account_cooldowns, account_performance,
                               current_migrator_index, migrators, fallback, mcalls >>
          ELSE LET id == active_migrators[pick.idx + 1]
                   m == migrators[id]
                   need == ~AlreadyProcessed(m.processed_users, uid) /\ ~mdry_run
               IN \E resp \in (IF need THEN MResponses ELSE {NoResponse}) :
                  \E r \in { add_user(m.processed_users, m.stats, mdry_run, uid, resp) } :
                    LET t2 == t1 + r.sleep
                        perf1 == [account_performance EXCEPT
                                    ![pick.idx] = update_account_performance(@, r.ret)]
                        last_error == last_error_of(r.stats.errors)
                        flood == ~r.ret /\ last_error = "Peer Flood Error"
                        admin == ~r.ret /\ last_error = "Admin Privileges Required"
                        cool1 == IF flood
                                 THEN set_account_cooldown(account_cooldowns,
                                        pick.idx, FLOOD_ERROR_DELAY, t2)
                                 ELSE account_cooldowns
                    IN /\ now' = t2
                       /\ picked' = PickRecord(pick, t1)
                       /\ current_migrator_index' = pick.cmi
                       /\ migrators' = [migrators EXCEPT ![id] =
                            [processed_users |-> r.processed, stats |-> r.stats,
                             file |-> IF r.saved
                                      THEN save_progress(r.processed, r.stats)
                                      ELSE m.file]]
                       /\ mcalls' = IF r.called
                                    THEN Append(mcalls, [account |-> id, uid |-> uid,
                                                         kind |-> resp.kind])
                                    ELSE mcalls
                       /\ account_cooldowns' = cool1
                       /\ account_performance' =
                            IF admin
                            THEN [perf1 EXCEPT ![pick.idx].score = HalveScore(@)]
                            ELSE perf1
                       /\ sched' = [call EXCEPT !.outcome = r.outcome,
                                      !.last_error = IF r.ret THEN "none" ELSE last_error,
                                      !.cooled_at = IF flood THEN t2 ELSE -1,
                                      !.others_free = OthersFree(cool1, pick.idx, t2),
                                      !.result = r.ret,
                                      !.ended = ~flood,
                                      !.resp = IF r.called THEN resp.kind
                                               ELSE "none",
                                      !.perf_before = account_performance[pick.idx],
                                      !.perf_after =
                                        IF admin
                                        THEN [perf1[pick.idx] EXCEPT
                                                !.score = HalveScore(@)]
                                        ELSE perf1[pick.idx],
                                      !.cooldown_before = account_cooldowns[pick.idx],
                                      !.cooldown_after = cool1[pick.idx]]
                       /\ IF flood
                          THEN /\ fallback' = [exclude_idx |-> pick.idx, attempts |-> 0]
                               /\ mpc' = "fallback"
                               /\ UNCHANGED << mstats, mi >>
                          ELSE /\ MReturned([mstats EXCEPT !.errors =
                                               combine_errors(@, r.stats.errors)], r.ret)
                               /\ UNCHANGED fallback
  /\ UNCHANGED << accounts, msource, mdry_run, active_migrators, mmembers, mhist >>
  /\ UNCHANGED svars

\* max_attempts = len(active_migrators) - (1 if exclude_idx is not None else 0)
MaxAttempts == Len(active_migrators) - 1

\* One pass of add_user_with_fallback's loop: the loop's exit, the break when
\* no account is available, the skip of the excluded account, or one attempt.
MFallback ==
  /\ mpc = "fallback"
  /\ \E pick \in { get_best_available_migrator(active_migrators,
                     account_cooldowns, account_performance,
                     current_migrator_index, now) } :
       LET uid == mmembers[mi]
       IN IF fallback.attempts >= MaxAttempts \/ ~pick.found
          THEN /\ sched' = [sched EXCEPT !.result = FALSE, !.ended = TRUE]
               /\ picked' = IF fallback.attempts >= MaxAttempts THEN picked
                            ELSE PickRecord(pick, now)
               /\ MReturned(mstats, FALSE)
               /\ UNCHANGED << now, current_migrator_index, migrators, mcalls,
                               account_cooldowns, account_performance, fallback >>
          ELSE IF pick.idx = fallback.exclude_idx
          THEN /\ current_migrator_index' = (pick.cmi + 1) % Len(active_migrators)
               /\ picked' = PickRecord(pick, now)
               /\ UNCHANGED << now, migrators, mcalls, account_cooldowns,
                               account_performance, fallback, sched, mstats, mi, mpc >>
          ELSE LET id == active_migrators[pick.idx + 1]
                   m == migrators[id]
                   need == ~AlreadyProcessed(m.processed_users, uid) /\ ~mdry_run
               IN \E resp \in (IF need THEN MResponses ELSE {NoResponse}) :
                  \E r \in { add_user(m.processed_users, m.stats, mdry_run, uid, resp) } :
                    LET t2 == now + r.sleep
                        flood == ~r.ret
                                 /\ last_error_of(r.stats.errors) = "Peer Flood Error"
                    IN /\ now' = t2
                       /\ picked' = PickRecord(pick, now)
                       /\ current_migrator_index' = pick.cmi
                       /\ migrators' = [migrators EXCEPT ![id] =
                            [processed_users |-> r.processed, stats |-> r.stats,
                             file |-> IF r.saved
                                      THEN save_progress(r.processed, r.stats)
                                      ELSE m.file]]
                       /\ mcalls' = IF r.called
                                    THEN Append(mcalls, [account |-> id, uid |-> uid,
                                                         kind |-> resp.kind])
                                    ELSE mcalls
                       /\ account_performance' = [account_performance EXCEPT
                            ![pick.idx] = update_account_performance(@, r.ret)]
                       /\ account_cooldowns' =
                            IF flood
                            THEN set_account_cooldown(account_cooldowns, pick.idx,
                                                      FLOOD_ERROR_DELAY, t2)
                            ELSE account_cooldowns
                       /\ IF r.ret
                          THEN /\ sched' = [sched EXCEPT !.tried = Append(@, pick.idx),
                                              !.result = TRUE, !.ended = TRUE]
                               /\ MReturned(mstats, TRUE)
                               /\ UNCHANGED fallback
                          ELSE /\ sched' = [sched EXCEPT !.tried = Append(@, pick.idx)]
                               /\ fallback' = [fallback EXCEPT !.attempts = @ + 1]
                               /\ UNCHANGED << mstats, mi, mpc >>
  /\ UNCHANGED << accounts, msource, mdry_run, active_migrators, mmembers, mhist >>
  /\ UNCHANGED svars

\* The earliest cooldown_until after time t.
NextExpiry(cooldowns, t) ==
  CHOOSE c \in { cooldowns[i] : i \in DOMAIN cooldowns } :
    /\ c > t
    /\ \A i \in DOMAIN cooldowns : cooldowns[i] > t => c <= cooldowns[i]

\* add_user_with_fallback's loop has no await on the pass that skips the
\* excluded account: it repeats that pass while time.time() runs on, until
\* the clock reaches the next cooldown expiry, the first moment at which
\* get_best_available_migrator can answer otherwise.
MTick ==
  /\ mpc = "fallback"
  /\ fallback.attempts < MaxAttempts
  /\ \E pick \in { get_best_available_migrator(active_migrators,
                     account_cooldowns, account_performance,
                     current_migrator_index, now) } :
       pick.found /\ pick.idx = fallback.exclude_idx
  /\ \E i \in DOMAIN account_cooldowns : account_cooldowns[i] > now
  /\ now' = NextExpiry(account_cooldowns, now)
  /\ UNCHANGED << accounts, msource, mdry_run, active_migrators,
                  account_cooldowns, account_performance,
                  current_migrator_index, migrators, mstats, mpc, mmembers, mi,
                  fallback, mcalls, sched, picked, mhist >>
  /\ UNCHANGED svars

\* KeyboardInterrupt or an exception reaches the handlers of main's
\* multi-account branch while the member loop runs: they log and save
\* nothing (MultiAccountMigrator has no save_progress); stop_all follows.
MInterrupt ==
  /\ mpc \in {"loop", "fallback"}
  /\ mpc' = "interrupted"
  /\ UNCHANGED << accounts, msource, mdry_run, active_migrators,
                  account_cooldowns, account_performance,
                  current_migrator_index, migrators, mstats, now, mmembers, mi,
                  fallback, mcalls, sched, picked, mhist >>
  /\ UNCHANGED svars

MNext ==
  \/ MStart
  \/ MAddUser
  \/ MFallback
  \/ MTick
  \/ MInterrupt

\* ---------------------------------------------------------- specifications
\* The single-account run.
SIdle ==
  /\ source = [members |-> 1, skipped |-> 0]
  /\ progress_file = NoFile /\ runs = 0 /\ pc = "off" /\ signals = 0
  /\ args = [dry_run |-> FALSE, batch_size |-> 1, invite_link |-> FALSE]
  /\ resuming = FALSE /\ processed_users = {} /\ stats = NewStats
  /\ should_exit = FALSE /\ members = << >> /\ users = << >> /\ idx = 0
  /\ caller = "batch" /\ retry_count = 0 /\ newly_failed = << >>
  /\ sleeping = 0 /\ pending = FALSE /\ calls = << >> /\ loaded = {}
  /\ last = NoCall /\ hist = NoHist

MIdle ==
  /\ accounts = 1 /\ msource = [members |-> 1, skipped |-> 0]
  /\ mdry_run = FALSE /\ active_migrators = << >>
  /\ account_cooldowns = [i \in Indexes(1) |-> 0]
  /\ account_performance = [i \in Indexes(1) |-> NewPerformance]
  /\ current_migrator_index = 0
  /\ migrators = [i \in Indexes(1) |-> NewMigrator]
  /\ mstats = NewStats /\ now = 0 /\ mpc = "off" /\ mmembers = << >> /\ mi = 0
  /\ fallback = [exclude_idx |-> -1, attempts |-> 0]
  /\ mcalls = << >> /\ sched = NoSched /\ picked = NoPick /\ mhist = NoMHist

Init == SInit /\ MIdle
Next == SNext
Spec == Init /\ [][Next]_vars

\* The multi-account run.
MultiInit == MInit /\ SIdle
MultiNext == MNext
SpecMulti == MultiInit /\ [][MultiNext]_vars

\* A run of either kind: single-account or multi-account.
AllInit == Init \/ MultiInit
AllNext == SNext \/ MNext
SpecAll == AllInit /\ [][AllNext]_vars

\* The direct-add part of a first single-account run, uninterrupted, from its
\* first add_user call, with every kind of answer the platform can give.
AddUser_Any == AddUserAnswered(AllResponses)

AddInit ==
  /\ MIdle
  /\ source \in [members : 1..MaxMembers, skipped : 0..MaxSkipped]
  /\ progress_file = NoFile /\ runs = 0 /\ pc = "add" /\ signals = 0
  /\ args \in [dry_run : BOOLEAN, batch_size : 1..MaxBatchSize,
                invite_link : {FALSE}]
  /\ resuming = FALSE /\ processed_users = {}
  /\ members = Ids(source.members)
  /\ stats = [get_chat_members(NewStats, source).stats
                EXCEPT !.total = source.members]
  /\ should_exit = FALSE /\ users = members /\ idx = 1
  /\ caller = "batch" /\ retry_count = 0 /\ newly_failed = << >>
  /\ sleeping = 0 /\ pending = FALSE /\ calls = << >> /\ loaded = {}
  /\ last = NoCall
  /\ hist = [NoHist EXCEPT !.started = TRUE, !.source_valid = TRUE,
                           !.target_valid = TRUE]

AddNext ==
  \/ AddUser_Any
  \/ AddUser_Wake
  \/ Batch_DelayDone
  \/ Main_Retry
  \/ Retry_PauseDone
  \/ Retry_WaitDone
  \/ Main_Finish

SpecAdd == AddInit /\ [][AddNext]_vars

\* Methods of one TelegramMigrator called directly, as the tests do, on a
\* migrator that was started or was only constructed.
CallInit ==
  /\ MIdle
  /\ source = [members |-> 1, skipped |-> 0]
  /\ progress_file = NoFile /\ runs = 0 /\ pc = "call" /\ signals = 0
  /\ args \in [dry_run : BOOLEAN, batch_size : {1}, invite_link : {FALSE}]
  /\ resuming = FALSE /\ processed_users = {} /\ stats = NewStats
  /\ should_exit = FALSE /\ members = << >> /\ users = << >> /\ idx = 0
  /\ caller = "batch" /\ retry_count = 0 /\ newly_failed = << >>
  /\ sleeping = 0 /\ pending = FALSE /\ calls = << >> /\ loaded = {}
  /\ last = NoCall
  /\ hist \in { [NoHist EXCEPT !.started = b] : b \in BOOLEAN }

\* What a direct call leaves alone.
CallFrame ==
  /\ UNCHANGED << source, runs, args, signals, resuming, should_exit, members,
                  users, idx, caller, retry_count, newly_failed, sleeping,
                  pending, loaded, hist >>
  /\ UNCHANGED mvars

\* await migrator.add_user(chat_id, user), to its return.
Call_AddUser ==
  /\ pc = "call"
  /\ last.n < MaxCalls
  /\ \E uid \in 1..MaxMembers, resp \in AllResponses :
     \E r \in { add_user(processed_users, stats, args.dry_run, uid,
                         client_add_chat_members(hist.started, resp)) } :
       /\ processed_users' = r.processed
       /\ stats' = r.stats
       /\ progress_file' = IF r.saved THEN save_progress(r.processed, r.stats)
                           ELSE progress_file
       /\ calls' = IF r.called /\ hist.started THEN Append(calls, uid) ELSE calls
       /\ last' = [n |-> last.n + 1, uid |-> uid,
                   resp |-> IF r.called
                            THEN client_add_chat_members(hist.started, resp)
                            ELSE NoResponse,
                   ret |-> r.ret, called |-> r.called, saved |-> r.saved,
                   sleep |-> r.sleep, outcome |-> r.outcome,
                   was_processed |-> uid \in processed_users]
       /\ pc' = "call"
  /\ CallFrame

\* migrator.save_progress(), whatever becomes of its write.
Call_SaveProgress ==
  /\ pc = "call"
  /\ last.n < MaxCalls
  /\ \E outcome \in WriteOutcomes :
     \E r \in { save_progress_guarded(progress_file, processed_users, stats,
                                      outcome) } :
       /\ progress_file' = r.file
       /\ pc' = IF r.raised THEN "raised" ELSE "call"
       /\ last' = [NoCall EXCEPT !.n = last.n + 1, !.outcome = "save_progress",
                                 !.resp = Raised(outcome)]
  /\ UNCHANGED << processed_users, stats, calls >>
  /\ CallFrame

\* The error types the direct calls record.
CallLabels == {"Test Error", "Privacy Restricted"}

\* migrator._update_error_stats(error_type)
Call_UpdateErrorStats ==
  /\ pc = "call"
  /\ last.n < MaxCalls
  /\ \E t \in CallLabels :
       /\ stats' = [stats EXCEPT !.errors = update_error_stats(@, t)]
       /\ last' = [NoCall EXCEPT !.n = last.n + 1,
                                 !.outcome = "_update_error_stats",
                                 !.resp = Raised(t)]
  /\ UNCHANGED << progress_file, pc, processed_users, calls >>
  /\ CallFrame

CallNext ==
  \/ Call_AddUser
  \/ Call_SaveProgress
  \/ Call_UpdateErrorStats

SpecCall == CallInit /\ [][CallNext]_vars

\* get_best_available_migrator called again and again on a scheduler that
\* start_all has just started, scores and cooldowns left as they are.
PickInit ==
  /\ SIdle
  /\ accounts \in 1..MaxPickAccounts
  /\ msource = [members |-> 1, skipped |-> 0]
  /\ mdry_run = FALSE
  /\ \E started \in SUBSET Indexes(accounts) :
       /\ started # {}
       /\ active_migrators = InOrder(started, 0, accounts)
       /\ account_performance =
            start_all_performance([i \in Indexes(accounts) |-> NewPerformance],
                                  started)
  /\ account_cooldowns = [i \in Indexes(accounts) |-> 0]
  /\ current_migrator_index = 0
  /\ migrators = [i \in Indexes(accounts) |-> NewMigrator]
  /\ mstats = NewStats /\ now = 0 /\ mpc = "pick" /\ mmembers = << >> /\ mi = 0
  /\ fallback = [exclude_idx |-> -1, attempts |-> 0]
  /\ mcalls = << >> /\ sched = NoSched /\ picked = NoPick /\ mhist = NoMHist

MPick ==
  /\ mpc = "pick"
  /\ picked.n < MaxPicks
  /\ \E pick \in { get_best_available_migrator(active_migrators,
                     account_cooldowns, account_performance,
                     current_migrator_index, now) } :
       /\ current_migrator_index' = pick.cmi
       /\ picked' = [PickRecord(pick, now) EXCEPT !.n = picked.n + 1]
  /\ UNCHANGED << accounts, msource, mdry_run, active_migrators,
                  account_cooldowns, account_performance, migrators, mstats,
                  now, mpc, mmembers, mi, fallback, mcalls, sched, mhist >>
  /\ UNCHANGED svars

PickNext == MPick
SpecPick == PickInit /\ [][PickNext]_vars

\* _update_account_performance fed every sequence of at most MaxOutcomes
\* outcomes, from the record __init__ creates.
RecordOutcome ==
  /\ mpc = "score"
  /\ account_performance[0].attempts < MaxOutcomes
  /\ \E success \in BOOLEAN :
       account_performance' =
         [account_performance EXCEPT ![0] = update_account_performance(@, success)]
  /\ UNCHANGED << accounts, msource, mdry_run, active_migrators,
                  account_cooldowns, current_migrator_index, migrators, mstats,
                  now, mpc, mmembers, mi, fallback, mcalls, sched, picked,
                  mhist >>
  /\ UNCHANGED svars

ScoreInit ==
  /\ SIdle
  /\ accounts = 1 /\ msource = [members |-> 1, skipped |-> 0]
  /\ mdry_run = FALSE /\ active_migrators = << >>
  /\ account_cooldowns = [i \in Indexes(1) |-> 0]
  /\ account_performance = [i \in Indexes(1) |-> NewPerformance]
  /\ current_migrator_index = 0
  /\ migrators = [i \in Indexes(1) |-> NewMigrator]
  /\ mstats = NewStats /\ now = 0 /\ mpc = "score" /\ mmembers = << >> /\ mi = 0
  /\ fallback = [exclude_idx |-> -1, attempts |-> 0]
  /\ mcalls = << >> /\ sched = NoSched /\ picked = NoPick /\ mhist = NoMHist
ScoreNext == RecordOutcome
SpecScore == ScoreInit /\ [][ScoreNext]_vars

\* ------------------------------------------------------------------ claims
ScoreInRange(x) == ~ScoreLess(x, ScoreFloor) /\ ~ScoreLess(ScoreOne, x)

\* C1: once stats.total has been set from the enumerated member list,
\* stats.success + stats.failed + stats.skipped <= stats.total in every
\* state of the run.
C1_CountersWithinTotal ==
  pc \notin {"idle", "off"} =>
    stats.success + stats.failed + stats.skipped <= stats.total

\* C2: an add_user call for a member already in processed_users issues no
\* platform call, returns the non-failure value, and leaves processed_users
\* and stats.errors as they were.
C2_AlreadyProcessedNoOp ==
  [][ (last'.n = last.n + 1 /\ last'.was_processed) =>
        /\ calls' = calls
        /\ ~last'.called
        /\ last'.ret = TRUE
        /\ last'.outcome = "AlreadyProcessed"
        /\ processed_users' = processed_users
        /\ stats'.errors = stats.errors ]_vars

C2_Witness == last.n > 0 /\ last.was_processed /\ caller = "retry"

\* C3: in a single-account run, through batch_add_users and the retry
\* passes, every platform add call is for a member that is not in
\* processed_users when the call is made.
C3_NoCallForProcessed ==
  [][ Len(calls') = Len(calls) + 1 =>
        calls'[Len(calls')] \notin processed_users ]_vars

C3_Witness ==
  caller = "retry" /\ last.called /\ Len(calls) >= 2 /\ processed_users # {}

\* C4: a run resumed from a progress file whose processed set is P issues
\* platform add calls only for enumerated members whose id is not in P.
C4_ResumeSkipsProcessed ==
  resuming =>
    \A i \in 1..Len(calls) :
      /\ calls[i] \notin loaded
      /\ \E k \in 1..Len(members) : members[k] = calls[i]

C4_Witness == resuming /\ loaded # {} /\ calls # << >>

\* C5: get_best_available_migrator never returns an account whose
\* cooldown_until is later than the current time, whatever its score, and
\* returns none when every active account is in cooldown.
C5_CooldownExclusion ==
  picked.n = 1 =>
    /\ picked.found => picked.idx \notin picked.cooled
    /\ picked.cooled = Indexes(Len(active_migrators)) => ~picked.found

C5_Witness == picked.n = 1 /\ picked.found /\ picked.outranked

\* C6: after start_all and any sequence of scheduler add_user calls, every
\* account's score lies in [0.1, 1.0]. Stated for the runs in which every
\* configured account started.
C6_ScoresInRange ==
  (mpc \in {"loop", "fallback", "done"} /\ Len(active_migrators) = accounts) =>
    \A i \in Indexes(accounts) : ScoreInRange(account_performance[i].score)

\* C7 as stated: each _update_account_performance call adds one to attempts
\* (and to successes on success), sets score to score * 0.7 + 0.3 on
\* success or score * 0.7 on failure, and the score stays in [0.1, 1.0].
C7_RecordOutcome ==
  [][ LET p == account_performance[0]
          q == account_performance'[0]
      IN /\ q.attempts = p.attempts + 1
         /\ q.successes \in {p.successes, p.successes + 1}
         /\ q.score = IF q.successes > p.successes
                      THEN PlusThreeTenths(TimesTenths(p.score, 7))
                      ELSE TimesTenths(p.score, 7)
         /\ ScoreInRange(q.score) ]_vars

\* C7 amended: each _update_account_performance call adds one to attempts
\* (and to successes on success) and sets score to score * 0.7 + 0.3 on
\* success or score * 0.7 on failure, capped to [0.1, 1.0]; so the score
\* stays in [0.1, 1.0].
C7_RecordOutcomeCapped ==
  [][ LET p == account_performance[0]
          q == account_performance'[0]
          blend == IF q.successes > p.successes
                   THEN PlusThreeTenths(TimesTenths(p.score, 7))
                   ELSE TimesTenths(p.score, 7)
      IN /\ q.attempts = p.attempts + 1
         /\ q.successes \in {p.successes, p.successes + 1}
         /\ q.score = IF ScoreLess(blend, ScoreFloor) THEN ScoreFloor
                      ELSE IF ScoreLess(ScoreOne, blend) THEN ScoreOne
                      ELSE blend
         /\ ScoreInRange(q.score) ]_vars

C7_Witness ==
  /\ mpc = "score"
  /\ account_performance[0].attempts >= 7
  /\ account_performance[0].successes = 0
  /\ account_performance[0].score = ScoreFloor

\* C8: in every scheduler add_user call whose selected account's attempt
\* ends with the global flood, that account's cooldown_until is set to the
\* time of the setting + 3600 and the same member is attempted on another
\* account within the call. Stated for the calls in which another account
\* was out of cooldown.
C8_FloodFailover ==
  (sched.n > 0 /\ sched.ended /\ sched.outcome = "FloodPenalty"
     /\ sched.others_free) =>
    /\ sched.cooled_at # -1
    /\ account_cooldowns[sched.primary] = sched.cooled_at + 3600
    /\ \E k \in 1..Len(sched.tried) : sched.tried[k] # sched.primary

\* C9: when the platform answers an add call with FloodWait carrying d,
\* add_user sleeps exactly d, returns the non-success value and leaves the
\* member out of processed_users; batch_add_users then adds exactly one to
\* stats.failed.
C9_RateLimited ==
  [][ /\ (pc = "add" /\ last'.n = last.n + 1 /\ last'.resp.kind = "FloodWait") =>
           /\ pc' = "add_sleep"
           /\ sleeping' = last'.resp.value
           /\ pending' = FALSE
           /\ processed_users' = processed_users
           /\ last'.uid \notin processed_users'
      /\ (pc = "add_sleep" /\ last.resp.kind = "FloodWait" /\ caller = "batch"
            /\ pc' \notin {"add_sleep", "cancelled"}) =>
           /\ stats'.failed = stats.failed + 1
           /\ stats'.success = stats.success
           /\ last.uid \notin processed_users' ]_vars

C9_Witness ==
  /\ caller = "batch" /\ last.outcome = "RateLimited"
  /\ pc \notin {"add_sleep", "cancelled"}
  /\ stats.failed >= 1

\* C10: when the platform answers an add call with the global flood,
\* add_user adds one to the count of "Peer Flood Error", sleeps 3600
\* seconds, returns the non-success value and leaves the member out of
\* processed_users.
C10_PeerFlood ==
  [][ (pc = "add" /\ last'.n = last.n + 1 /\ last'.resp.kind = "PEER_FLOOD") =>
        /\ ErrorCount(stats'.errors, "Peer Flood Error")
             = ErrorCount(stats.errors, "Peer Flood Error") + 1
        /\ pc' = "add_sleep"
        /\ sleeping' = 3600
        /\ pending' = FALSE
        /\ processed_users' = processed_users
        /\ last'.uid \notin processed_users' ]_vars

C10_Witness == pc = "add_sleep" /\ last.outcome = "FloodPenalty"

\* Every label an error can be counted under.
AllLabels == { ErrorLabel(k) : k \in Rejections \cup {OtherError, "PEER_FLOOD"} }

\* C11: when the add call fails with one of the named rejections or with
\* any other exception whose text holds no "flood", add_user marks the
\* member processed, adds one to exactly one error category (the label of
\* the rejection, or the text of the exception), does not sleep, and
\* returns the non-success value to its caller.
C11_Rejected ==
  [][ (pc = "add" /\ last'.n = last.n + 1
         /\ last'.resp.kind \in Rejections \cup {OtherError}) =>
        /\ last'.uid \in processed_users'
        /\ processed_users' = processed_users \cup {last'.uid}
        /\ \A t \in AllLabels :
             ErrorCount(stats'.errors, t)
               = ErrorCount(stats.errors, t)
                   + (IF t = ErrorLabel(last'.resp.kind) THEN 1 ELSE 0)
        /\ Len(stats'.errors) <= Len(stats.errors) + 1
        /\ pc' \notin {"add_sleep", "cancelled", "aborted"}
        /\ last'.ret = FALSE
        /\ caller = "batch" =>
             stats'.failed = stats.failed + 1 /\ stats'.success = stats.success
        /\ caller = "retry" =>
             /\ newly_failed' = Append(newly_failed, last'.uid)
             /\ stats'.failed = stats.failed /\ stats'.success = stats.success
    ]_vars

C11_Witness ==
  /\ last.n > 0 /\ last.resp.kind = OtherError
  /\ ErrorCount(stats.errors, OtherError) = 1
  /\ last.uid \in processed_users

\* C12: when the platform adds the member, add_user marks the member
\* processed, then saves progress (the saved record holds the member), then
\* waits 60 seconds, and only then returns the success value to its caller.
C12_AddedInOrder ==
  [][ /\ (pc = "add" /\ last'.n = last.n + 1 /\ last'.resp.kind = "OK") =>
           /\ processed_users' = processed_users \cup {last'.uid}
           /\ progress_file'.exists
           /\ progress_file'.processed_users = processed_users'
           /\ pc' = "add_sleep"
           /\ sleeping' = 60
           /\ pending' = TRUE
           /\ stats'.success = stats.success /\ stats'.failed = stats.failed
      /\ (pc = "add_sleep" /\ last.resp.kind = "OK"
            /\ pc' \notin {"add_sleep", "cancelled"}) =>
           /\ stats'.success = stats.success + 1
           /\ last.uid \in processed_users'
    ]_vars

C12_Witness ==
  /\ last.outcome = "Added" /\ pc \notin {"add_sleep", "cancelled"}
  /\ stats.success >= 1
  /\ last.uid \in processed_users

\* C13: in a dry run no mutating platform call is issued: no
\* add_chat_members, no send_message and no create_chat_invite_link, in the
\* direct-add and the invite-link strategies alike.
C13_DryRunNoCalls ==
  (pc \notin {"idle", "off"} /\ args.dry_run) =>
    calls = << >> /\ hist.others = << >>

\* C14: when a direct-add run completes with every enumerated member
\* drained (processed), stats.success + stats.failed + stats.skipped
\* = stats.total.
C14_DrainedCountersEqualTotal ==
  (pc = "done" /\ ~args.invite_link
     /\ \A k \in 1..Len(members) : members[k] \in processed_users) =>
    stats.success + stats.failed + stats.skipped = stats.total

\* C15: if the signal raises the exit flag during batch_add_users before
\* every member has been processed, the run ends with the progress file
\* present and holding the members processed so far; the file is deleted
\* only when the run completed the full member list.
C15_InterruptKeepsProgress ==
  (pc = "done" /\ hist.interrupted
     /\ \E k \in 1..Len(members) : members[k] \notin processed_users) =>
    /\ progress_file.exists
    /\ processed_users \subseteq progress_file.processed_users

\* C16: when cancellation arrives while add_user is suspended in one of its
\* sleeps (after a success, after a rate limit, after a peer flood), the
\* progress file was written before the sleep began and holds the processed
\* set as it is at the cancellation, and the cancellation propagates: no
\* member is marked, counted or queued for retry because of it.
C16_CancelledInSleep ==
  [][ (pc = "add_sleep" /\ pc' = "cancelled") =>
        /\ last.saved
        /\ progress_file.exists
        /\ progress_file.processed_users = processed_users
        /\ processed_users' = processed_users
        /\ stats' = stats
        /\ newly_failed' = newly_failed
        /\ calls' = calls ]_vars

\* A rate-limit back-off of add_user was cancelled.
C16_Witness ==
  /\ pc = "cancelled"
  /\ hist.cancelled_at = "add_sleep"
  /\ last.outcome = "RateLimited"

\* The processed set held by the progress file, empty when there is none.
Persisted == IF progress_file.exists THEN progress_file.processed_users ELSE {}

\* The single-account run is inside one of its long waits.
InLongWait ==
  \/ pc \in {"batch_delay", "retry_wait"}
  \/ pc = "add_sleep" /\ last.outcome \in {"RateLimited", "FloodPenalty"}

\* C17: whenever a single-account run is in a long wait (rate-limit
\* back-off, flood penalty, inter-batch delay, wait between retry passes),
\* the progress file holds every id of the in-memory processed set.
C17_SavedBeforeLongWait ==
  InLongWait => processed_users \subseteq Persisted

\* A single-account direct-add run is under way.
DirectAddRunning ==
  /\ ~args.invite_link
  /\ pc \in {"batch_begin", "add", "add_sleep", "batch_delay", "after_batch",
             "retry_pause", "retry_wait"}

\* C18: at every point of a single-account direct-add run the in-memory
\* processed set exceeds the processed set of the progress file by at most
\* one member id.
C18_AtMostOneUnsaved ==
  DirectAddRunning => Cardinality(processed_users \ Persisted) <= 1

\* The processed set held by a migrator's progress file, empty when it has
\* none.
MPersisted(m) == IF m.file.exists THEN m.file.processed_users ELSE {}

\* C19: when an exception ends a run, the progress of the run has been
\* persisted before the run terminates; in a multi-account run, every
\* migrator's processed set is in its progress file once main's handlers
\* have run.
C19_ProgressSavedOnException ==
  mpc = "interrupted" =>
    \A k \in 1..Len(active_migrators) :
      LET m == migrators[active_migrators[k]]
      IN m.processed_users \subseteq MPersisted(m)

\* The elements of a sequence.
Range(seq) == { seq[k] : k \in 1..Len(seq) }

\* C20: a run issues no platform add and no message-send unless its account
\* started (single-account) or at least one account started (multi-account)
\* and both groups validated; a run in which one of these failed ends
\* without a single member attempt.
C20_NoWorkBeforeValidation ==
  /\ (calls # << >> \/ "send_message" \in Range(hist.others)) =>
       hist.started /\ hist.source_valid /\ hist.target_valid
  /\ mcalls # << >> =>
       active_migrators # << >> /\ mhist.source_valid /\ mhist.target_valid
  /\ (pc \notin {"idle", "off"}
        /\ ~(hist.started /\ hist.source_valid /\ hist.target_valid)) =>
       pc = "aborted" /\ last.n = 0 /\ calls = << >> /\ hist.others = << >>
  /\ (mpc \notin {"idle", "off", "score"}
        /\ ~(active_migrators # << >> /\ mhist.source_valid
               /\ mhist.target_valid)) =>
       mpc \in {"failed", "invalid"} /\ sched.n = 0 /\ mcalls = << >>

\* A single-account run whose target group did not validate has ended.
C20_Witness ==
  /\ pc = "aborted"
  /\ hist.started /\ hist.source_valid /\ ~hist.target_valid
  /\ last.n = 0

\* C21: add_user for an unprocessed member, outside dry-run, on a migrator
\* whose client was never started fails fast: the member is not added to
\* processed_users and no error category is recorded for it.
C21_DisconnectedFailsFast ==
  (pc = "call" /\ ~hist.started /\ ~args.dry_run
     /\ last.outcome \notin {"none", "save_progress", "_update_error_stats"}
     /\ ~last.was_processed) =>
    /\ last.uid \notin processed_users
    /\ ErrorCount(stats.errors, NoClient) = 0

\* C22: a write of the progress file that fails does not abort anything:
\* save_progress raises nothing to its caller and leaves processed_users and
\* stats as they were, and the caller goes on with its next call.
C22_SaveFailureNotFatal ==
  [][ (pc = "call" /\ last'.n = last.n + 1 /\ last'.outcome = "save_progress"
         /\ last'.resp.kind # "written") =>
        /\ pc' = "call"
        /\ processed_users' = processed_users
        /\ stats' = stats ]_vars

\* A write failed after truncating the file, with a member processed, and
\* the migrator is ready for its next call.
C22_Witness ==
  /\ pc = "call"
  /\ last.outcome = "save_progress"
  /\ last.resp.kind = "dump_failed"
  /\ progress_file = TruncatedFile
  /\ processed_users # {}
  /\ last.n < MaxCalls

\* C23: recording an error category adds one to the count of exactly that
\* category (creating it at 1 when absent) and leaves every other category's
\* count and the total, success, failed and skipped counters unchanged.
C23_UpdateErrorStatsFrame ==
  [][ (last'.n = last.n + 1 /\ last'.outcome = "_update_error_stats") =>
        LET t == last'.resp.kind
        IN /\ ErrorCount(stats'.errors, t) = ErrorCount(stats.errors, t) + 1
           /\ \A u \in (CallLabels \cup AllLabels \cup {NoClient}) \ {t} :
                ErrorCount(stats'.errors, u) = ErrorCount(stats.errors, u)
           /\ [stats' EXCEPT !.errors = NoErrors]
                = [stats EXCEPT !.errors = NoErrors] ]_vars

\* A category was recorded a second time next to another category.
C23_Witness ==
  /\ last.outcome = "_update_error_stats"
  /\ ErrorCount(stats.errors, last.resp.kind) = 2
  /\ Len(stats.errors) = 2

\* add_user_with_fallback is at a pass that skips the excluded account,
\* every cooldown has expired, and the accounts out of cooldown are so few
\* that the pick does not depend on current_migrator_index: the pass changes
\* nothing but that index, and is repeated for ever.
FallbackSpins ==
  /\ mpc = "fallback"
  /\ fallback.attempts < MaxAttempts
  /\ \A i \in DOMAIN account_cooldowns : account_cooldowns[i] <= now
  /\ TopHalf(Len(active_migrators)) = 1
  /\ get_best_available_migrator(active_migrators, account_cooldowns,
       account_performance, current_migrator_index, now).idx
       = fallback.exclude_idx

\* C24: every call of add_user_with_fallback returns, after at most
\* (active accounts - 1) add attempts: it never comes to a pass it can only
\* repeat, and never makes more attempts than that.
C24_FallbackReturns ==
  /\ ~FallbackSpins
  /\ mpc = "fallback" => Len(sched.tried) <= MaxAttempts

\* C25: within one add_user_with_fallback call the excluded account is never
\* used, each other account is attempted at most once, and the call returns
\* failure only after every other account that is out of cooldown has been
\* attempted.
C25_FallbackOnceEach ==
  (sched.n > 0 /\ sched.outcome = "FloodPenalty") =>
    /\ \A k \in 1..Len(sched.tried) : sched.tried[k] # sched.primary
    /\ \A j, k \in 1..Len(sched.tried) : j # k => sched.tried[j] # sched.tried[k]
    /\ (sched.ended /\ ~sched.result) =>
         \A i \in Indexes(Len(active_migrators)) \ {sched.primary} :
           account_cooldowns[i] <= now => i \in Range(sched.tried)

\* C26: the scheduler's add_user sets the selected account's cooldown and
\* calls add_user_with_fallback only when that account's attempt has just
\* ended with the peer flood; an attempt that ended with a rate limit or a
\* rejection does neither, whatever errors the account recorded earlier.
C26_CooldownOnlyOnFlood ==
  (sched.n > 0 /\ sched.outcome \in {"RateLimited", "Rejected"}) =>
    /\ sched.cooled_at = -1
    /\ sched.tried = << >>
    /\ sched.ended

\* The answers that reject the member for good.
PermanentRejections ==
  {"UserPrivacyRestricted", "UserNotMutualContact", "PeerIdInvalid",
   "InputUserDeactivated", "UserChannelsTooMuch", "ChannelPrivate"}

\* C27: in a multi-account run, once an account's add call for a member was
\* answered with a permanent rejection, no further add call is issued for
\* that member on any account, and the scheduler does not report the member
\* as a success.
C27_NoCallAfterPermanentRejection ==
  /\ \A j, k \in 1..Len(mcalls) :
       (j < k /\ mcalls[j].kind \in PermanentRejections) =>
         mcalls[k].uid # mcalls[j].uid
  /\ (sched.n > 0 /\ sched.ended /\ sched.result) =>
       \A j \in 1..Len(mcalls) :
         mcalls[j].kind \in PermanentRejections => mcalls[j].uid # sched.uid

\* The number of times category t was recorded by the migrators 0..n-1.
RECURSIVE RecordedTimes(_, _)
RecordedTimes(t, n) ==
  IF n = 0 THEN 0
  ELSE ErrorCount(migrators[n - 1].stats.errors, t) + RecordedTimes(t, n - 1)

\* C28: after any sequence of scheduler add_user calls, the scheduler's
\* count of each error category is the number of times the category was
\* recorded across all accounts.
C28_ErrorTotalsAreSums ==
  (mpc \in {"loop", "done"}) =>
    \A t \in AllLabels :
      ErrorCount(mstats.errors, t) = RecordedTimes(t, accounts)

\* C29: get_best_available_migrator returns an account of the eligible pool,
\* the ceil(k/2) highest-scored (at least 1) of the k accounts out of
\* cooldown: the returned account is among them, and they are the places the
\* call rotates among (2 of them when 3 accounts are out of cooldown).
C29_PoolIsTopHalfRoundedUp ==
  (picked.n > 0 /\ picked.found) =>
    LET half_up == IF picked.k <= 1 THEN 1 ELSE (picked.k + 1) \div 2
    IN /\ picked.rank <= half_up
       /\ picked.pool = half_up

\* C30: with scores and cooldowns unchanged, successive
\* get_best_available_migrator calls go round the pool: each call returns the
\* place after the one the call before returned, the first place after the
\* last.
C30_RoundRobin ==
  [][ (mpc = "pick" /\ picked.n > 0 /\ picked'.n = picked.n + 1) =>
        picked'.rank = (picked.rank % picked.pool) + 1 ]_vars

\* C31: when the selected account's add call is answered admin-required, the
\* scheduler's add_user halves the score the attempt left the account with,
\* leaves the account's cooldown_until as it was, does not call
\* add_user_with_fallback.
C31_AdminRequired ==
  (sched.n > 0 /\ sched.resp = "ChatAdminRequired") =>
    /\ sched.perf_after.score =
         HalveScore(update_account_performance(sched.perf_before, FALSE).score)
    /\ sched.cooldown_after = sched.cooldown_before
    /\ sched.tried = << >>
    /\ sched.ended

\* C32: when every active account is in cooldown as add_user begins, the call
\* sleeps SCHEDULER_WAIT seconds and selects once more at that later time; if
\* every account is still in cooldown then, it returns False at exactly that
\* time, having issued no platform add call, and otherwise it goes on with the
\* account found.
C32_WaitsOnceThenFails ==
  [][ ( /\ mpc = "loop"
        /\ sched'.n = sched.n + 1
        /\ \A i \in Indexes(Len(active_migrators)) : now < account_cooldowns[i] )
      => /\ sched'.waited
         /\ IF \A i \in Indexes(Len(active_migrators)) :
                 now + SCHEDULER_WAIT < account_cooldowns[i]
            THEN /\ sched'.primary = -1
                 /\ ~sched'.result
                 /\ sched'.ended
                 /\ mcalls' = mcalls
                 /\ now' = now + SCHEDULER_WAIT
                 /\ mpc' # "fallback"
            ELSE /\ sched'.primary # -1
                 /\ now' >= now + SCHEDULER_WAIT ]_vars

\* add_user has waited for a member, found no account free after the wait and
\* returned False.
C32_Witness ==
  /\ sched.n > 0
  /\ sched.waited
  /\ sched.primary = -1
  /\ ~sched.result
  /\ mcalls # << >>

\* ------------------------------------------------------- batch_add_users
\* One uninterrupted call of batch_add_users on a fresh migrator, with up to
\* MaxBatchMembers members and chunks of up to MaxChunk, each add answered by a
\* success, a rate limit or a privacy rejection.
MaxBatchMembers == 10
MaxChunk == 5

BatchAnswers == { OK, FloodWait(30), Raised("UserPrivacyRestricted") }

AddUser_InBatch == AddUserAnswered(BatchAnswers)

BatchInit ==
  /\ MIdle
  /\ source \in [members : 1..MaxBatchMembers, skipped : {0}]
  /\ progress_file = NoFile /\ runs = 0 /\ pc = "batch_begin" /\ signals = 0
  /\ args \in [dry_run : {FALSE}, batch_size : 1..MaxChunk,
                invite_link : {FALSE}]
  /\ resuming = FALSE /\ processed_users = {}
  /\ members = Ids(source.members)
  /\ stats = [NewStats EXCEPT !.total = source.members]
  /\ should_exit = FALSE /\ users = << >> /\ idx = 0
  /\ caller = "batch" /\ retry_count = 0 /\ newly_failed = << >>
  /\ sleeping = 0 /\ pending = FALSE /\ calls = << >> /\ loaded = {}
  /\ last = NoCall
  /\ hist = [NoHist EXCEPT !.started = TRUE, !.source_valid = TRUE,
                           !.target_valid = TRUE]

BatchNext ==
  \/ BatchAddUsers_Begin
  \/ AddUser_InBatch
  \/ AddUser_Wake
  \/ Batch_DelayDone

SpecBatch == BatchInit /\ [][BatchNext]_vars

\* C33: in an uninterrupted batch_add_users over n unprocessed members with
\* batch size b, the members are attempted in list order; before each chunk
\* every earlier chunk has been completed, saved and followed by one delay; a
\* delay follows a chunk only when members are left; and on return all n
\* members were attempted, progress was saved ceil(n/b) times at chunk ends
\* and the delay was slept ceil(n/b) - 1 times. With 10 members, b = 5 and no
\* failure the stats on return are total 10, success 10, failed 0, skipped 0.
C33_Chunks ==
  LET n == Len(members)
      b == args.batch_size
      chunks == (n + b - 1) \div b
  IN /\ last.n > 0 => last.uid = members[last.n]
     /\ pc \in {"add", "add_sleep"} =>
          /\ hist.chunk_saves = (idx - 1) \div b
          /\ hist.delays = (idx - 1) \div b
          /\ last.n \in {idx - 1, idx}
     /\ pc = "batch_delay" =>
          /\ idx % b = 0 /\ idx < n /\ last.n = idx
          /\ hist.chunk_saves = idx \div b
          /\ hist.delays = idx \div b
          /\ progress_file = save_progress(processed_users, stats)
     /\ pc = "after_batch" =>
          /\ last.n = n
          /\ hist.chunk_saves = chunks
          /\ hist.delays = chunks - 1
          /\ progress_file = save_progress(processed_users, stats)
          /\ (n = 10 /\ b = 5 /\ stats.failed = 0) =>
               /\ stats.total = 10 /\ stats.success = 10
               /\ stats.skipped = 0

\* batch_add_users has returned from ten members in two chunks of five, all
\* added.
C33_Witness ==
  /\ pc = "after_batch"
  /\ Len(members) = 10 /\ args.batch_size = 5
  /\ stats.success = 10 /\ stats.failed = 0
  /\ hist.chunk_saves = 2 /\ hist.delays = 1

\* C34: when batch_add_users returns because the exit flag was raised, the
\* chunk that was in flight has been attempted to its last member and
\* progress has been saved after it: the number of members attempted is a
\* multiple of the batch size or the whole list, and the progress file holds
\* the state the chunk ended with.
C34_ChunkCompletedOnInterrupt ==
  (pc = "after_batch" /\ caller = "batch" /\ should_exit /\ users # << >>) =>
    /\ last.n % args.batch_size = 0 \/ last.n = Len(users)
    /\ progress_file = save_progress(processed_users, stats)

\* C35: once the exit flag has been raised, at most the add that was in flight
\* is completed: an add_chat_members call batch_add_users makes with the flag
\* up is its last (it returns after it), and when the flag was raised inside
\* batch_add_users, retry_failed_users makes no add_chat_members call.
C35_NoAddAfterExit ==
  [][ /\ (should_exit /\ caller = "batch" /\ Len(calls') > Len(calls)) =>
           (pc' \in {"add_sleep", "after_batch"})
      /\ (should_exit /\ hist.interrupted /\ caller = "retry") =>
           (Len(calls') <= Len(calls)) ]_vars

\* retry_failed_users is running.
InRetry ==
  caller = "retry" /\ pc \in {"add", "add_sleep", "retry_pause", "retry_wait"}

\* What is left of retry_failed_users: the passes not started, then the users
\* of the pass not attempted, then the steps of the current attempt.
RetryMeasure ==
  (MaxRetries + 1 - retry_count) * 4 * (Len(members) + 1)
    + (Len(users) - idx) * 4
    + (CASE pc = "add" -> 3
         [] pc = "add_sleep" -> 2
         [] pc = "retry_pause" -> 1
         [] OTHER -> 0)

\* C36: retry_failed_users terminates after at most max_retries passes (every
\* step strictly decreases a non-negative measure, and the pass number never
\* exceeds max_retries), it runs a pass only on a non-empty list and returns
\* early once the list is empty, each later pass walks exactly the users for
\* whom add_user returned False in the pass before, and once it has returned
\* no add_user call follows.
C36_RetryTerminates ==
  /\ [](InRetry =>
          /\ retry_count \in 1..MaxRetries
          /\ users # << >>
          /\ RetryMeasure >= 0
          /\ pc = "retry_pause" =>
               (last.uid \in Range(newly_failed) <=> ~last.ret)
          /\ pc = "retry_wait" => users = newly_failed)
  /\ []((caller = "retry" /\ pc = "after_retry") =>
          /\ retry_count <= MaxRetries + 1
          /\ users = << >> \/ retry_count = MaxRetries + 1
          /\ users = newly_failed)
  /\ [][ InRetry => (caller' = "retry" /\ RetryMeasure' < RetryMeasure) ]_vars
  /\ [][ (pc \in {"after_retry", "done"}) => (last' = last) ]_vars

\* retry_failed_users has returned after max_retries passes with a user that
\* failed in every one of them.
C36_Witness ==
  /\ caller = "retry" /\ pc = "after_retry"
  /\ retry_count = MaxRetries + 1
  /\ users # << >>
  /\ last.n >= MaxRetries + 1

\* C37: the wait retry_failed_users makes between two consecutive passes is
\* 120 seconds times the number of the pass just ended: 120 s after the first
\* pass, 240 s after the second.
C37_RetryWaits ==
  (caller = "retry" /\ pc = "retry_wait") =>
    sleeping = RetryWaitUnit * (retry_count - 1)

\* C38: in a single-account direct-add run stats.success grows only by an
\* add_user call whose platform add succeeded or was simulated (so it never
\* exceeds the number of distinct members added), and stats.failed shrinks
\* only by such a call: a rejected member is never counted as a success nor
\* taken out of the failure tally.
C38_SuccessOnlyForAdded ==
  [][ ( /\ pc \in {"add", "add_sleep"}
        /\ stats'.success > stats.success \/ stats'.failed < stats.failed )
      => last'.outcome \in {"Added", "Simulated"} ]_vars

\* C39: stats.failed is never negative in a single-account run, runs in which
\* batch_add_users returned early on the exit flag and retry_failed_users
\* then walked the members not yet processed included.
C39_FailedNotNegative == stats.failed >= 0

\* C40: in a multi-account run, once the scheduler has ranked the accounts,
\* the entries of account_performance and account_cooldowns that
\* get_best_available_migrator consults for an active
\* account, and that _update_account_performance and set_account_cooldown
\* update for it, are the account's own: the index the scheduler uses for an
\* active account is the index the account was configured and started under,
\* and never the index of an account that failed to start.
C40_OwnScoreAndCooldown ==
  picked.n > 0 =>
    \A p \in Indexes(Len(active_migrators)) :
      /\ p \in Range(active_migrators)
      /\ active_migrators[p + 1] = p

====
